---- MODULE Spec2Model ----
(***************************************************************************)
(* A model of the lab-report grading tool (batch_grader.py, grader_gui.py) *)
(* and of the vertex sorter (duckFlatSorter.py).                           *)
(*                                                                         *)
(* Python strings are sequences of one-character strings; Python's None is *)
(* the tuple NoneVal, which is no character sequence.                      *)
(***************************************************************************)
EXTENDS Integers, Sequences, FiniteSets, TLC

VARIABLES
    \* scan_qr_for_sid on one image
    s_pc, s_raw, s_thresh, s_value, s_thresholded, s_ret,
    \* grade_submission from the response text on
    p_pc, p_doc, p_text, p_cleaned, p_result,
    \* batch_grader.main: its position, its locals and what it has written
    batch,
    \* GraderApp: whether it runs, its fields and widgets, and its worker threads
    app, input_dir, is_running, btn_run, progress_bar, label_status, threads,
    \* duckFlatSorter: its position and its variables
    sort_pc, vertices, vertices2, c, count

scanVars == <<s_pc, s_raw, s_thresh, s_value, s_thresholded, s_ret>>
parseVars == <<p_pc, p_doc, p_text, p_cleaned, p_result>>
guiVars == <<app, input_dir, is_running, btn_run, progress_bar, label_status, threads>>
sortVars == <<sort_pc, vertices, vertices2, c, count>>
vars == <<scanVars, parseVars, batch, guiVars, sortVars>>

(***************************************************************************)
(* Bounds of the model                                                     *)
(***************************************************************************)
MaxDigits == 2
MaxFiles == 2
MaxPages == 2
MaxThreads == 2
MaxVerts == 3

(***************************************************************************)
(* Strings                                                                 *)
(***************************************************************************)
NoneVal == <<"None">>

Truthy(v) == v # NoneVal /\ v # <<>>

Digits == {"0", "1", "2", "3", "4", "5", "6", "7", "8", "9"}

Whitespace == {" ", "\n", "\t"}

StartsWith(s, p) == Len(s) >= Len(p) /\ SubSeq(s, 1, Len(p)) = p

Drop(s, n) == SubSeq(s, n + 1, Len(s))

RECURSIVE Replace(_, _)
\* str.replace(old, ''): every non-overlapping occurrence, left to right
Replace(s, old) ==
    IF Len(s) < Len(old) \/ old = <<>> THEN s
    ELSE IF StartsWith(s, old) THEN Replace(Drop(s, Len(old)), old)
    ELSE <<Head(s)>> \o Replace(Tail(s), old)

RECURSIVE LStrip(_)
LStrip(s) == IF s # <<>> /\ Head(s) \in Whitespace THEN LStrip(Tail(s)) ELSE s

RECURSIVE RStrip(_)
RStrip(s) ==
    IF s # <<>> /\ s[Len(s)] \in Whitespace THEN RStrip(SubSeq(s, 1, Len(s) - 1)) ELSE s

Strip(s) == RStrip(LStrip(s))

(***************************************************************************)
(* scan_qr_for_sid                                                         *)
(***************************************************************************)
SidTag == <<"S", "I", "D", ":">>

\* the pattern SID:(\d+) matches at position i of s
MatchAt(s, i) ==
    /\ i + Len(SidTag) <= Len(s)
    /\ SubSeq(s, i, i + Len(SidTag) - 1) = SidTag
    /\ s[i + Len(SidTag)] \in Digits

\* the group of a match at i: the longest run of digits after the tag
Group(s, i) ==
    LET from == i + Len(SidTag)
        ends == {j \in from..Len(s) : \A k \in from..j : s[k] \in Digits}
        last == CHOOSE j \in ends : \A k \in ends : k <= j
    IN  SubSeq(s, from, last)

\* re.match in place of re.search: the pattern at the start of s only
FirstMatchAnchored(s) == IF MatchAt(s, 1) THEN 1 ELSE 0

\* re.search: the leftmost position at which the pattern matches, 0 for no match
FirstMatch(s) ==
    LET at == {i \in 1..Len(s) : MatchAt(s, i)}
    IN  IF at = {} THEN 0 ELSE CHOOSE i \in at : \A k \in at : i <= k

\* lines 84-91: what is returned for the decoded value
SidOfValue(value) ==
    IF value # <<>>
    THEN IF FirstMatch(value) # 0 THEN Group(value, FirstMatch(value)) ELSE value
    ELSE NoneVal

\* lines 76-82: raw is what detectAndDecode gives on the image, thresh what it
\* gives on the thresholded image
DecodedValue(raw, thresh) == IF raw = <<>> THEN thresh ELSE raw

scan_qr_for_sid(raw, thresh) == SidOfValue(DecodedValue(raw, thresh))

(***************************************************************************)
(* The scanner on one image, for every pair of decoder outcomes            *)
(***************************************************************************)
RECURSIVE DigitStrings(_)
DigitStrings(n) ==
    IF n = 0 THEN {<<>>}
    ELSE DigitStrings(n - 1) \cup
         {d \o <<x>> : d \in {e \in DigitStrings(n - 1) : Len(e) = n - 1}, x \in {"4", "7"}}

ScanPayloads ==
    {<<>>} \cup
    {pre \o core \o suf :
        pre \in {<<>>, <<"x">>},
        core \in {<<"S", "I", "D">>} \cup {SidTag \o d : d \in DigitStrings(MaxDigits)},
        suf \in {<<>>, <<"x">>, <<"x", "S", "I", "D", ":", "4">>}}

ScanIdle ==
    /\ s_pc = "off" /\ s_raw = <<>> /\ s_thresh = <<>>
    /\ s_value = <<>> /\ s_thresholded = FALSE /\ s_ret = NoneVal

ScanInit ==
    /\ s_pc = "call"
    /\ s_raw \in ScanPayloads
    /\ s_thresh \in ScanPayloads
    /\ s_value = <<>> /\ s_thresholded = FALSE /\ s_ret = NoneVal

\* lines 76-82: the two decoding passes
ScanDecode ==
    /\ s_pc = "call"
    /\ s_value' = DecodedValue(s_raw, s_thresh)
    /\ s_thresholded' = (s_raw = <<>>)
    /\ s_pc' = "decoded"
    /\ UNCHANGED <<s_raw, s_thresh, s_ret>>
    /\ UNCHANGED <<parseVars, batch, guiVars, sortVars>>

\* lines 84-91
ScanReturn ==
    /\ s_pc = "decoded"
    /\ s_ret' = SidOfValue(s_value)
    /\ s_pc' = "returned"
    /\ UNCHANGED <<s_raw, s_thresh, s_value, s_thresholded>>
    /\ UNCHANGED <<parseVars, batch, guiVars, sortVars>>

ScanNext == ScanDecode \/ ScanReturn

(***************************************************************************)
(* grade_submission: cleaning and parsing the response text                *)
(***************************************************************************)
\* The backquote character, written as an apostrophe.
Tick == "'"
Fence == <<Tick, Tick, Tick>>
FenceJson == Fence \o <<"j", "s", "o", "n">>

\* lines 117-120
Clean(text) ==
    Strip(IF StartsWith(text, FenceJson)
          THEN Replace(Replace(text, FenceJson), Fence)
          ELSE text)

NA == <<"N", "/", "A">>
ERR == <<"E", "r", "r", "o", "r">>
Unknown == <<"U", "n", "k", "n", "o", "w", "n">>
\* "AI Processing Failed. Check terminal for available models."
FailedFeedback == <<"A", "I", " ", "f", "a", "i", "l", "e", "d">>

Keys == {"student_name_detected", "sid_detected", "score", "feedback",
         "plagiarism_flag", "plagiarism_reason"}

\* A parsed JSON value: a dict with the keys it holds (the other fields are
\* fillers, never read), or a value that is no dict (kind "list").
Dict(keys, name, sid, score, feedback, flag, reason) ==
    [kind |-> "dict", keys |-> keys, student_name_detected |-> name,
     sid_detected |-> sid, score |-> score, feedback |-> feedback,
     plagiarism_flag |-> flag, plagiarism_reason |-> reason]

NonDict(kind) ==
    [kind |-> kind, keys |-> {}, student_name_detected |-> <<>>,
     sid_detected |-> <<>>, score |-> 0, feedback |-> <<>>,
     plagiarism_flag |-> FALSE, plagiarism_reason |-> <<>>]

\* dict.get(key, default)
Get(d, key, default) == IF key \in d.keys THEN d[key] ELSE default

\* lines 137-143
Sentinel ==
    Dict(Keys \ {"plagiarism_reason"}, ERR, ERR, 0, FailedFeedback, FALSE, <<>>)

\* The JSON documents of the model. A letter between the braces stands for the
\* members of the object; DocTicks holds a code fence inside a string.
DocFull == <<"{", "F", "}">>
DocNA == <<"{", "N", "}">>
DocNull == <<"{", "U", "}">>
DocBlank == <<"{", "B", "}">>
DocEmpty == <<"{", "}">>
DocTicks == <<"{">> \o Fence \o <<"}">>
DocArray == <<"[", "F", "]">>
Garbage == <<"s", "o", "r", "r", "y">>

Ann == <<"A", "n", "n">>
Bob == <<"B", "o", "b">>

\* json.loads: [ok, val]; ok is FALSE when it raises
JsonLoads(text) ==
    LET s == Strip(text)
        ok(v) == [ok |-> TRUE, val |-> v]
    IN  CASE s = DocFull ->
               ok(Dict(Keys, Ann, <<"5", "5">>, 87, <<"o", "k">>, TRUE, <<"a", "i">>))
          [] s = DocNA -> ok(Dict(Keys, Bob, NA, 60, <<"o", "k">>, FALSE, <<>>))
          [] s = DocNull -> ok(Dict(Keys, Bob, NoneVal, 60, <<"o", "k">>, FALSE, <<>>))
          [] s = DocBlank -> ok(Dict(Keys, Bob, <<>>, 60, <<"o", "k">>, FALSE, <<>>))
          [] s = DocEmpty -> ok(Dict({}, <<>>, <<>>, 0, <<>>, FALSE, <<>>))
          [] s = DocTicks ->
               ok(Dict({"feedback"}, <<>>, <<>>, 0, Fence, FALSE, <<>>))
          [] s = DocArray -> ok(NonDict("list"))
          [] OTHER -> [ok |-> FALSE, val |-> NonDict("error")]

\* line 124, and lines 126-143 when it raises
LoadsOrSentinel(cleaned) ==
    IF JsonLoads(cleaned).ok THEN JsonLoads(cleaned).val ELSE Sentinel

\* lines 116-124 and 126-143, from the response text on; None has no
\* startswith, which raises
ParseResponse(text) ==
    IF text = NoneVal THEN Sentinel ELSE LoadsOrSentinel(Clean(text))

\* What generate_content does: it raises, or it answers with a text (which may
\* be None).
Response(raises, text) == [raises |-> raises, text |-> text]

\* lines 93-143. Listing the models after a 404 (lines 129-136) only prints.
grade_submission(response) ==
    IF response.raises # "no" THEN Sentinel ELSE ParseResponse(response.text)

(***************************************************************************)
(* The per-submission pipeline                                             *)
(***************************************************************************)
\* A page image is what the decoder gives on it, raw and thresholded.
Page(raw, thresh) == [raw |-> raw, thresh |-> thresh]

PipePages ==
    {Page(<<>>, <<>>), Page(SidTag \o <<"7">>, <<>>), Page(<<>>, SidTag \o <<"4">>),
     Page(<<"q">>, <<>>)}

RECURSIVE PageLists(_)
PageLists(n) ==
    IF n = 0 THEN {<<>>}
    ELSE PageLists(n - 1) \cup
         {l \o <<pg>> : l \in {m \in PageLists(n - 1) : Len(m) = n - 1}, pg \in PipePages}

\* What extract_images_from_pdf does on a file: it raises, or returns the images.
Rasters ==
    {[raises |-> TRUE, images |-> <<>>]} \cup
    {[raises |-> FALSE, images |-> l] : l \in PageLists(MaxPages)}

Responses ==
    {Response("network", NoneVal), Response("404", NoneVal), Response("no", NoneVal)} \cup
    {Response("no", t) :
        t \in {DocFull, DocNA, DocNull, DocBlank, DocEmpty, DocArray, Garbage}}

RECURSIVE FirstSid(_)
\* lines 173-178: the first page on which the scanner finds a value
FirstSid(images) ==
    IF images = <<>> THEN NoneVal
    ELSE IF Truthy(scan_qr_for_sid(Head(images).raw, Head(images).thresh))
         THEN scan_qr_for_sid(Head(images).raw, Head(images).thresh)
         ELSE FirstSid(Tail(images))

\* lines 185-192 without the comparison with "Error"
FinalSidNoErrorCheck(detected_sid, ai_result) ==
    IF Truthy(detected_sid) THEN detected_sid
    ELSE IF /\ Truthy(Get(ai_result, "sid_detected", NoneVal))
            /\ Get(ai_result, "sid_detected", NoneVal) # NA
         THEN Get(ai_result, "sid_detected", NoneVal)
         ELSE NA

\* lines 185-192
FinalSid(detected_sid, ai_result) ==
    IF Truthy(detected_sid) THEN detected_sid
    ELSE IF /\ Truthy(Get(ai_result, "sid_detected", NoneVal))
            /\ Get(ai_result, "sid_detected", NoneVal) # NA
            /\ Get(ai_result, "sid_detected", NoneVal) # ERR
         THEN Get(ai_result, "sid_detected", NoneVal)
         ELSE NA

\* lines 195-203
BatchRow(filename, final_sid, ai_result) ==
    [Filename |-> filename,
     StudentID |-> final_sid,
     StudentName |-> Get(ai_result, "student_name_detected", Unknown),
     Score |-> Get(ai_result, "score", 0),
     Flagged |-> IF Get(ai_result, "plagiarism_flag", FALSE) THEN "YES" ELSE "No",
     FlagReason |-> Get(ai_result, "plagiarism_reason", <<>>),
     Feedback |-> Get(ai_result, "feedback", <<>>)]

(***************************************************************************)
(* batch_grader.main                                                       *)
(***************************************************************************)
\* glob: the files of a directory that holds n PDF files
Glob(n) == [k \in 1..n |-> k]

BatchOff ==
    [pc |-> "off", exists |-> FALSE, pdfs |-> 0, pdf_files |-> <<>>, i |-> 0,
     results |-> <<>>, images |-> <<>>, detected_sid |-> NoneVal,
     response |-> Response("no", NoneVal), ai_result |-> NonDict("unset"),
     last |-> "none", rasterized |-> <<>>, processed |-> 0, writes |-> 0,
     csv |-> <<>>, printed |-> {}]

\* main is called: INPUT_DIR exists or not, and holds some number of PDF files
BatchInits ==
    {[BatchOff EXCEPT !.pc = "start", !.exists = e, !.pdfs = n] :
        e \in BOOLEAN, n \in 0..MaxFiles} \ 
    {[BatchOff EXCEPT !.pc = "start", !.exists = FALSE, !.pdfs = n] : n \in 1..MaxFiles}

\* a for loop that ends after its first file
NextFileEarly(f) == [f EXCEPT !.processed = @ + 1, !.pc = "export"]

\* line 161: the for loop goes to its next file, or ends (processed counts the
\* iterations that have ended)
NextFile(f) ==
    IF f.i < Len(f.pdf_files)
    THEN [f EXCEPT !.processed = @ + 1, !.i = f.i + 1, !.pc = "extract"]
    ELSE [f EXCEPT !.processed = @ + 1, !.pc = "export"]

\* lines 146-159
BatchStartStep(f) ==
    IF ~f.exists
    THEN [f EXCEPT !.exists = TRUE, !.printed = {"creating"}, !.pc = "done"]
    ELSE IF Glob(f.pdfs) = <<>>
    THEN [f EXCEPT !.pdf_files = <<>>, !.printed = {"no_pdf"}, !.pc = "done"]
    ELSE [f EXCEPT !.pdf_files = Glob(f.pdfs), !.results = <<>>,
                   !.printed = {"found"}, !.i = 1, !.pc = "extract"]

\* lines 161-178, and 207-208 when the rasterizer raises
BatchExtractStep(f, raster) ==
    IF raster.raises
    THEN NextFile([f EXCEPT !.last = "raster_raised"])
    ELSE IF raster.images = <<>>
    THEN NextFile([f EXCEPT !.images = <<>>, !.last = "skipped"])
    ELSE [f EXCEPT !.images = raster.images,
                   !.detected_sid = FirstSid(raster.images),
                   !.rasterized = @ \o <<f.pdf_files[f.i]>>,
                   !.pc = "grade"]

\* lines 180-205, and 207-208 when ai_result has no get
BatchGradeStep(f, response) ==
    LET ai == grade_submission(response)
        g == [f EXCEPT !.response = response, !.ai_result = ai]
    IN  IF ai.kind # "dict"
        THEN NextFile([g EXCEPT !.last = "row_raised"])
        ELSE NextFile([g EXCEPT
                 !.results = @ \o <<BatchRow(f.pdf_files[f.i],
                                             FinalSid(f.detected_sid, ai), ai)>>,
                 !.last = "row"])

\* lines 210-213
BatchExportStep(f) ==
    [f EXCEPT !.writes = @ + 1, !.csv = f.results,
              !.printed = @ \cup {"done"}, !.pc = "done"]

BatchStart ==
    /\ batch.pc = "start"
    /\ batch' = BatchStartStep(batch)
    /\ UNCHANGED <<scanVars, parseVars, guiVars, sortVars>>

BatchExtract ==
    /\ batch.pc = "extract"
    /\ \E raster \in Rasters : batch' = BatchExtractStep(batch, raster)
    /\ UNCHANGED <<scanVars, parseVars, guiVars, sortVars>>

BatchGrade ==
    /\ batch.pc = "grade"
    /\ \E response \in Responses : batch' = BatchGradeStep(batch, response)
    /\ UNCHANGED <<scanVars, parseVars, guiVars, sortVars>>

BatchExport ==
    /\ batch.pc = "export"
    /\ batch' = BatchExportStep(batch)
    /\ UNCHANGED <<scanVars, parseVars, guiVars, sortVars>>

BatchNext == BatchStart \/ BatchExtract \/ BatchGrade \/ BatchExport

(***************************************************************************)
(* grader_gui.GraderApp                                                    *)
(***************************************************************************)
\* A directory: whether it exists and how many PDF files it holds.
Dir(exists, pdfs) == [exists |-> exists, pdfs |-> pdfs]
Dirs == {Dir(FALSE, 0)} \cup {Dir(TRUE, n) : n \in 0..MaxFiles}

\* progress_bar.set(a / b)
Ratio(a, b) == <<a, b>>

\* A worker thread about to run run_logic (line 101).
ThreadNew ==
    [pc |-> "validate", pdf_files |-> <<>>, total |-> 0, i |-> 0,
     results |-> <<>>, processed |-> 0, writes |-> 0, csv |-> <<>>, logged |-> {}]

\* No thread: none was started, or its run_logic has returned.
ThreadNone == [ThreadNew EXCEPT !.pc = "none"]

\* The worker threads of the application, at most MaxThreads at a time.
NoThreads == [w \in 1..MaxThreads |-> ThreadNone]

\* lines 147-155
GuiRow(filename, sid_raw, ai_result) ==
    [Filename |-> filename,
     StudentIDQR |-> sid_raw,
     StudentNameAI |-> Get(ai_result, "student_name_detected", Unknown),
     Score |-> Get(ai_result, "score", 0),
     Flagged |-> IF Get(ai_result, "plagiarism_flag", FALSE) THEN "YES" ELSE "No",
     FlagReason |-> Get(ai_result, "plagiarism_reason", <<>>),
     Feedback |-> Get(ai_result, "feedback", <<>>)]

\* lines 132-138
GuiSid(images) == IF Truthy(FirstSid(images)) THEN FirstSid(images) ELSE NA

\* lines 140-156, and 158-159 when ai_result has no get
GuiGradeStep(t, sid_raw, response) ==
    LET ai_result == grade_submission(response)
    IN  IF ai_result.kind # "dict"
        THEN t
        ELSE [t EXCEPT !.results = @ \o <<GuiRow(t.pdf_files[t.i], sid_raw, ai_result)>>]

\* lines 128-159: the body of the loop for one file; images, sid_raw and
\* ai_result are set before they are read in every turn
GuiTryStep(t, raster, response) ==
    IF raster.raises
    THEN t
    ELSE GuiGradeStep(t, GuiSid(raster.images), response)

\* line 123: the for loop goes to its next file, or ends
GuiNextFile(t) ==
    IF t.i < t.total
    THEN [t EXCEPT !.processed = @ + 1, !.i = t.i + 1]
    ELSE [t EXCEPT !.processed = @ + 1, !.pc = "export"]

\* lines 123-162: one turn of the loop
GuiIteration(t, raster, response) == GuiNextFile(GuiTryStep(t, raster, response))

\* lines 112-121: the thread's locals; a directory that is gone by now has no
\* files
GuiGlobStep(t, dir) ==
    IF ~dir.exists \/ Glob(dir.pdfs) = <<>>
    THEN [t EXCEPT !.logged = {"no_pdf"}, !.pc = "early"]
    ELSE [t EXCEPT !.pdf_files = Glob(dir.pdfs), !.total = Len(Glob(dir.pdfs)),
                   !.results = <<>>, !.logged = {"found"}, !.i = 1, !.pc = "loop"]

\* The files and answers the front-end is run on.
GuiRasters ==
    {[raises |-> TRUE, images |-> <<>>], [raises |-> FALSE, images |-> <<>>],
     [raises |-> FALSE, images |-> <<Page(SidTag \o <<"7">>, <<>>)>>]}

GuiResponses == {Response("no", DocFull), Response("no", DocArray)}

GuiOff ==
    /\ app = "off" /\ input_dir = Dir(FALSE, 0) /\ is_running = FALSE
    /\ btn_run = "normal" /\ progress_bar = Ratio(0, 1)
    /\ label_status = "Status: Idle" /\ threads = NoThreads

\* lines 23-72: the application after __init__, in its main loop
GuiInit ==
    /\ app = "mainloop"
    /\ input_dir \in Dirs
    /\ is_running = FALSE
    /\ btn_run = "normal"
    /\ progress_bar = Ratio(0, 1)
    /\ label_status = "Status: Idle"
    /\ threads = NoThreads

\* lines 80-85: the user picks another folder
browse_folder ==
    /\ app = "mainloop"
    /\ \E folder \in Dirs \ {input_dir} : input_dir' = folder
    /\ UNCHANGED <<app, is_running, btn_run, progress_bar, label_status, threads>>
    /\ UNCHANGED <<scanVars, parseVars, batch, sortVars>>

\* The thread slots that hold no thread, and the first of them.
Free == {w \in DOMAIN threads : threads[w].pc = "none"}
FirstFree == CHOOSE w \in Free : \A v \in Free : w <= v

\* lines 87-102: a click on the start button, which a disabled button ignores
start_grading ==
    /\ app = "mainloop"
    /\ btn_run = "normal"
    /\ Free # {}
    /\ IF is_running
       THEN UNCHANGED <<is_running, btn_run, progress_bar, threads>>
       ELSE /\ is_running' = TRUE
            /\ btn_run' = "disabled"
            /\ progress_bar' = Ratio(0, 1)
            /\ threads' = [threads EXCEPT ![FirstFree] = ThreadNew]
    /\ UNCHANGED <<app, input_dir, label_status>>
    /\ UNCHANGED <<scanVars, parseVars, batch, sortVars>>

\* lines 182-185
finish_run ==
    /\ is_running' = FALSE
    /\ btn_run' = "normal"
    /\ label_status' = "Idle"

\* lines 107-110
GuiValidate(w) ==
    /\ threads[w].pc = "validate"
    /\ IF ~input_dir.exists
       THEN /\ threads' = [threads EXCEPT ![w].logged = {"no_dir"}, ![w].pc = "early"]
            /\ finish_run
       ELSE /\ threads' = [threads EXCEPT ![w].pc = "glob"]
            /\ UNCHANGED <<is_running, btn_run, label_status>>
    /\ UNCHANGED <<app, input_dir, progress_bar>>
    /\ UNCHANGED <<scanVars, parseVars, batch, sortVars>>

\* lines 112-121
GuiGlob(w) ==
    /\ threads[w].pc = "glob"
    /\ threads' = [threads EXCEPT ![w] = GuiGlobStep(@, input_dir)]
    /\ IF GuiGlobStep(threads[w], input_dir).pc = "early"
       THEN finish_run
       ELSE UNCHANGED <<is_running, btn_run, label_status>>
    /\ UNCHANGED <<app, input_dir, progress_bar>>
    /\ UNCHANGED <<scanVars, parseVars, batch, sortVars>>

\* lines 123-162: one turn of the loop, with the progress bar set at its end
GuiLoop(w) ==
    /\ threads[w].pc = "loop"
    /\ \E raster \in GuiRasters, response \in GuiResponses :
           threads' = [threads EXCEPT ![w] = GuiIteration(@, raster, response)]
    /\ label_status' = "Processing"
    /\ progress_bar' = Ratio(threads[w].i, threads[w].total)
    /\ UNCHANGED <<app, input_dir, is_running, btn_run>>
    /\ UNCHANGED <<scanVars, parseVars, batch, sortVars>>

\* lines 164-178: what os.startfile does, or that it raises, changes nothing here
GuiExport(w) ==
    /\ threads[w].pc = "export"
    /\ threads' = [threads EXCEPT ![w].writes = @ + 1,
                                  ![w].csv = threads[w].results,
                                  ![w].logged = @ \cup {"done"},
                                  ![w].pc = "finally"]
    /\ UNCHANGED <<app, input_dir, is_running, btn_run, progress_bar, label_status>>
    /\ UNCHANGED <<scanVars, parseVars, batch, sortVars>>

\* lines 179-180, also after the return of line 110 or 117; run_logic returns
GuiFinally(w) ==
    /\ threads[w].pc \in {"early", "finally"}
    /\ finish_run
    /\ threads' = [threads EXCEPT ![w] = ThreadNone]
    /\ UNCHANGED <<app, input_dir, progress_bar>>
    /\ UNCHANGED <<scanVars, parseVars, batch, sortVars>>

\* run_logic, in any of the worker threads
Validate == \E w \in DOMAIN threads : GuiValidate(w)
GlobFiles == \E w \in DOMAIN threads : GuiGlob(w)
Loop == \E w \in DOMAIN threads : GuiLoop(w)
Export == \E w \in DOMAIN threads : GuiExport(w)
Finally == \E w \in DOMAIN threads : GuiFinally(w)

GuiNext ==
    \/ browse_folder
    \/ start_grading
    \/ Validate
    \/ GlobFiles
    \/ Loop
    \/ Export
    \/ Finally

(***************************************************************************)
(* The parsing of a response text, for documents in and out of code fences *)
(***************************************************************************)
ParseDocs == {DocFull, DocNA, DocNull, DocBlank, DocEmpty, DocTicks, DocArray, Garbage}

\* t as it is, and t between a leading and a trailing code fence
Wrappings(t) ==
    {t} \cup
    {lead \o Fence \o tag \o nl \o t \o nl \o Fence \o trail :
        lead \in {<<>>, <<" ">>},
        tag \in {<<>>, <<"j", "s", "o", "n">>},
        nl \in {<<>>, <<"\n">>},
        trail \in {<<>>, <<"\n">>}}

ParseIdle ==
    /\ p_pc = "off" /\ p_doc = <<>> /\ p_text = <<>>
    /\ p_cleaned = <<>> /\ p_result = NonDict("unset")

ParseInit ==
    /\ p_pc = "text"
    /\ p_doc \in ParseDocs
    /\ p_text \in Wrappings(p_doc)
    /\ p_cleaned = <<>> /\ p_result = NonDict("unset")

\* lines 117-120
ParseClean ==
    /\ p_pc = "text"
    /\ p_cleaned' = Clean(p_text)
    /\ p_pc' = "cleaned"
    /\ UNCHANGED <<p_doc, p_text, p_result>>
    /\ UNCHANGED <<scanVars, batch, guiVars, sortVars>>

\* lines 122-124, 126-143
ParseLoads ==
    /\ p_pc = "cleaned"
    /\ p_result' = LoadsOrSentinel(p_cleaned)
    /\ p_pc' = "parsed"
    /\ UNCHANGED <<p_doc, p_text, p_cleaned>>
    /\ UNCHANGED <<scanVars, batch, guiVars, sortVars>>

ParseNext == ParseClean \/ ParseLoads

(***************************************************************************)
(* Both entry points on the same files                                     *)
(***************************************************************************)
\* lines 161-208 of batch_grader.main: one turn of the loop
BatchIteration(f, raster, response) ==
    IF BatchExtractStep(f, raster).pc = "grade"
    THEN BatchGradeStep(BatchExtractStep(f, raster), response)
    ELSE BatchExtractStep(f, raster)

\* main and run_logic have both listed the n files of the directory
EquivInit ==
    \E n \in 1..MaxFiles :
        /\ batch = BatchStartStep([BatchOff EXCEPT !.pc = "start", !.exists = TRUE,
                                                   !.pdfs = n])
        /\ app = "mainloop"
        /\ input_dir = Dir(TRUE, n)
        /\ is_running = TRUE
        /\ btn_run = "disabled"
        /\ progress_bar = Ratio(0, 1)
        /\ label_status = "Status: Idle"
        /\ threads = [NoThreads EXCEPT
                          ![1] = GuiGlobStep([ThreadNew EXCEPT !.pc = "glob"], Dir(TRUE, n))]

\* One turn of both loops, on the same file with the same outcomes.
EquivIterate ==
    /\ batch.pc = "extract"
    /\ threads[1].pc = "loop"
    /\ batch.i = threads[1].i
    /\ \E raster \in Rasters, response \in Responses :
           /\ batch' = BatchIteration(batch, raster, response)
           /\ threads' = [threads EXCEPT ![1] = GuiIteration(@, raster, response)]
    /\ label_status' = "Processing"
    /\ progress_bar' = Ratio(threads[1].i, threads[1].total)
    /\ UNCHANGED <<app, input_dir, is_running, btn_run>>
    /\ UNCHANGED <<scanVars, parseVars, sortVars>>

EquivNext == EquivIterate \/ BatchExport \/ Export \/ Finally

(***************************************************************************)
(* duckFlatSorter.py                                                       *)
(***************************************************************************)
\* line 28: minim = 100
MinimStart == 100

Points == {<<0, 0>>, <<3, 4>>, <<6, 0>>, <<0, 200>>}

RECURSIVE VertexLists(_)
VertexLists(n) ==
    IF n = 0 THEN {<<>>}
    ELSE VertexLists(n - 1) \cup
         {l \o <<v>> : l \in {m \in VertexLists(n - 1) : Len(m) = n - 1}, v \in Points}

Range(s) == {s[k] : k \in DOMAIN s}

\* line 16, squared: distances are compared, and d < e exactly when d*d < e*e
Dist2(a, b) == (a[1] - b[1]) * (a[1] - b[1]) + (a[2] - b[2]) * (a[2] - b[2])

RECURSIVE ForLoop(_, _, _, _, _)
\* lines 30-36: ctemp after the for loop over vs, the empty tuple when nothing
\* is found
ForLoop(vs, cur, added, minim2, ctemp) ==
    IF vs = <<>> THEN ctemp
    ELSE IF /\ Head(vs) # cur
            /\ Dist2(Head(vs), cur) < minim2
            /\ Head(vs) \notin Range(added)
         THEN ForLoop(Tail(vs), cur, added, Dist2(Head(vs), cur), Head(vs))
         ELSE ForLoop(Tail(vs), cur, added, minim2, ctemp)

\* line 21
WhileCond == Len(vertices2) < Len(vertices) \/ count > Len(vertices) * 5

\* lines 22-26
Added == IF c \notin Range(vertices2) THEN Append(vertices2, c) ELSE vertices2

\* lines 28-36
Ctemp == ForLoop(vertices, c, Added, MinimStart * MinimStart, <<>>)

SortIdle ==
    /\ sort_pc = "off" /\ vertices = <<>> /\ vertices2 = <<>> /\ c = <<>> /\ count = 0

\* lines 8-11
SortInit ==
    /\ sort_pc = "start"
    /\ vertices \in VertexLists(MaxVerts)
    /\ vertices2 = <<>>
    /\ c = <<>>
    /\ count = 0

\* line 13: an empty list has no first vertex
SortStart ==
    /\ sort_pc = "start"
    /\ IF vertices = <<>>
       THEN sort_pc' = "IndexError" /\ c' = c
       ELSE sort_pc' = "while" /\ c' = vertices[1]
    /\ UNCHANGED <<vertices, vertices2, count>>
    /\ UNCHANGED <<scanVars, parseVars, batch, guiVars>>

\* lines 21-40: one turn of the while loop. count is read only in
\* count > len(vertices) * 5, and is counted up to the first such value.
SortTurn ==
    /\ sort_pc = "while"
    /\ WhileCond
    /\ vertices2' = Added
    /\ c' = IF Ctemp # <<>> THEN Ctemp ELSE c
    /\ count' = IF count > Len(vertices) * 5 THEN count ELSE count + 1
    /\ UNCHANGED <<sort_pc, vertices>>
    /\ UNCHANGED <<scanVars, parseVars, batch, guiVars>>

\* line 21: the condition is false
SortExit ==
    /\ sort_pc = "while"
    /\ ~WhileCond
    /\ sort_pc' = "done"
    /\ UNCHANGED <<vertices, vertices2, c, count>>
    /\ UNCHANGED <<scanVars, parseVars, batch, guiVars>>

SortNext == SortStart \/ SortTurn \/ SortExit

(***************************************************************************)
(* Specifications                                                          *)
(***************************************************************************)
InitScan == ScanInit /\ ParseIdle /\ batch = BatchOff /\ GuiOff /\ SortIdle
SpecScan == InitScan /\ [][ScanNext]_vars

InitParse == ParseInit /\ ScanIdle /\ batch = BatchOff /\ GuiOff /\ SortIdle
SpecParse == InitParse /\ [][ParseNext]_vars

\* One of the two entry points is run.
Init ==
    /\ ScanIdle /\ ParseIdle /\ SortIdle
    /\ \/ batch \in BatchInits /\ GuiOff
       \/ batch = BatchOff /\ GuiInit
Next == BatchNext \/ GuiNext
Spec == Init /\ [][Next]_vars

InitBatch == ScanIdle /\ ParseIdle /\ SortIdle /\ batch \in BatchInits /\ GuiOff
SpecBatch == InitBatch /\ [][BatchNext]_vars

InitGui == ScanIdle /\ ParseIdle /\ SortIdle /\ batch = BatchOff /\ GuiInit
SpecGui == InitGui /\ [][GuiNext]_vars

InitEquiv == ScanIdle /\ ParseIdle /\ SortIdle /\ EquivInit
SpecEquiv == InitEquiv /\ [][EquivNext]_vars

InitSort == ScanIdle /\ ParseIdle /\ batch = BatchOff /\ GuiOff /\ SortInit
SpecSort == InitSort /\ [][SortNext]_vars

(***************************************************************************)
(* C1: the Student ID of a row of the batch driver is the scanner's value  *)
(* from the lowest-indexed page on which it returned one, whatever the     *)
(* grading result reports; with no such page it is the grading result's    *)
(* sid_detected when that is present, non-empty (null counts as empty) and *)
(* neither "N/A" nor "Error"; in every other case it is "N/A".             *)
(***************************************************************************)
PageSid(pg) == scan_qr_for_sid(pg.raw, pg.thresh)

\* main has just appended the row of the file it extracted and graded last
RowAppended == batch.last = "row" /\ batch.pc # "grade"

LastRow == batch.results[Len(batch.results)]

C1_Reconciliation ==
    RowAppended =>
        LET hits == {k \in DOMAIN batch.images : PageSid(batch.images[k]) # NoneVal}
            first == CHOOSE k \in hits : \A j \in hits : k <= j
            ai == batch.ai_result
        IN  IF hits # {}
            THEN LastRow.StudentID = PageSid(batch.images[first])
            ELSE IF /\ "sid_detected" \in ai.keys
                    /\ ai.sid_detected \notin {NoneVal, <<>>, NA, ERR}
                 THEN LastRow.StudentID = ai.sid_detected
                 ELSE LastRow.StudentID = NA

\* the scanner finds nothing on page 1 and a value on page 2, and the grading
\* result reports another identifier
C1_Witness ==
    /\ RowAppended
    /\ Len(batch.images) = 2
    /\ PageSid(batch.images[1]) = NoneVal
    /\ PageSid(batch.images[2]) = <<"7">>
    /\ batch.ai_result.sid_detected = <<"5", "5">>
    /\ LastRow.StudentID = <<"7">>

(***************************************************************************)
(* C2: when the inference call of a submission with at least one image     *)
(* fails in any way (it raises, or its text is not the expected JSON       *)
(* object), grade_submission returns the sentinel result and the           *)
(* submission contributes exactly one row, with Score 0.                   *)
(***************************************************************************)
InferenceFailed(r) ==
    \/ r.raises # "no"
    \/ r.text = NoneVal
    \/ ~JsonLoads(Clean(r.text)).ok
    \/ JsonLoads(Clean(r.text)).val.kind # "dict"

C2_FailSoft ==
    (/\ batch.last \in {"row", "row_raised"}
     /\ batch.pc # "grade"
     /\ InferenceFailed(batch.response))
        => /\ batch.ai_result = Sentinel
           /\ batch.last = "row"
           /\ LastRow.Score = 0
           /\ LastRow.Filename = batch.rasterized[Len(batch.rasterized)]
           /\ Cardinality({k \in DOMAIN batch.results :
                  batch.results[k].Filename = LastRow.Filename}) = 1

(***************************************************************************)
(* C3: after the batch loop the results hold exactly one row for each      *)
(* submission that was rasterized to at least one image, and none for any  *)
(* other, in enumeration order; and the loop has gone through every file.  *)
(***************************************************************************)
C3_RowPerRasterized ==
    batch.pc \in {"export", "done"} =>
        /\ Len(batch.results) = Len(batch.rasterized)
        /\ \A k \in DOMAIN batch.results :
               batch.results[k].Filename = batch.rasterized[k]
        /\ batch.processed = Len(batch.pdf_files)

(***************************************************************************)
(* C4: while any worker thread is still in run_logic the start button is   *)
(* disabled and is_running is true, so at most one worker thread exists.   *)
(***************************************************************************)
Live == {w \in DOMAIN threads : threads[w].pc # "none"}

C4_OneWorker ==
    /\ Live # {} => (is_running /\ btn_run = "disabled")
    /\ Cardinality(Live) <= 1

(***************************************************************************)
(* C5: in both entry points a run writes the CSV at most once and only     *)
(* after the loop has gone through every enumerated file; a run that finds *)
(* no directory or no PDF file reports that and writes nothing.            *)
(***************************************************************************)
C5_WriteOnceAtEnd ==
    /\ batch.writes <= 1
    /\ batch.writes = 1 =>
           (batch.pdf_files # <<>> /\ batch.processed = Len(batch.pdf_files))
    /\ (batch.pc = "done" /\ batch.pdf_files = <<>>) =>
           (batch.writes = 0 /\ batch.printed \in {{"creating"}, {"no_pdf"}})
    /\ \A w \in DOMAIN threads :
           /\ threads[w].writes <= 1
           /\ threads[w].writes = 1 =>
                  (threads[w].total >= 1 /\ threads[w].processed = threads[w].total)
           /\ (threads[w].pc \notin {"none", "validate", "glob"} /\ threads[w].total = 0) =>
                  (threads[w].writes = 0 /\ threads[w].logged \in {{"no_dir"}, {"no_pdf"}})

\* a front-end run over two files has written its CSV
C5_Witness ==
    \E w \in DOMAIN threads :
        /\ threads[w].writes = 1
        /\ threads[w].total = 2
        /\ threads[w].processed = 2

(***************************************************************************)
(* C8: in a front-end run over N files the progress bar is k/N after the   *)
(* k-th file has been processed, and 1 after the last, before the export.  *)
(***************************************************************************)
ShowsRatio(a, b) == progress_bar[1] * b = a * progress_bar[2]

C8_Progress ==
    \A w \in DOMAIN threads :
        /\ (threads[w].pc = "loop" /\ threads[w].i >= 2) =>
               ShowsRatio(threads[w].i - 1, threads[w].total)
        /\ threads[w].pc = "export" => ShowsRatio(1, 1)

(***************************************************************************)
(* C9: on the same files with the same outcomes the front-end collects the *)
(* same rows as the batch driver, in number, order and content (only the   *)
(* column names differ).                                                   *)
(***************************************************************************)
Renamed(r) ==
    [Filename |-> r.Filename, StudentID |-> r.StudentIDQR,
     StudentName |-> r.StudentNameAI, Score |-> r.Score, Flagged |-> r.Flagged,
     FlagReason |-> r.FlagReason, Feedback |-> r.Feedback]

C9_SameRows ==
    (batch.pc = "export" /\ threads[1].pc = "export") =>
        /\ Len(threads[1].results) = Len(batch.results)
        /\ \A k \in DOMAIN batch.results :
               Renamed(threads[1].results[k]) = batch.results[k]

(***************************************************************************)
(* C10: on a non-empty list of pairwise distinct vertices the while loop   *)
(* terminates, and on exit vertices2 holds every vertex once, starts with  *)
(* vertices[0], and each later element is a nearest vertex not yet added   *)
(* to the one before it.                                                   *)
(***************************************************************************)
Distinct(s) == \A i, j \in DOMAIN s : i # j => s[i] # s[j]

\* A turn of the loop that changes neither vertices2 nor c, under a condition
\* that then holds for ever: the loop does not terminate.
Stalled == sort_pc = "while" /\ WhileCond /\ c \in Range(vertices2) /\ Ctemp = <<>>

C10_SortTerminates ==
    (vertices # <<>> /\ Distinct(vertices)) =>
        /\ ~Stalled
        /\ sort_pc = "done" =>
               /\ Len(vertices2) = Len(vertices)
               /\ Range(vertices2) = Range(vertices)
               /\ vertices2[1] = vertices[1]
               /\ \A k \in 2..Len(vertices2) :
                      \A j \in k..Len(vertices2) :
                          Dist2(vertices2[k], vertices2[k - 1])
                              <= Dist2(vertices2[j], vertices2[k - 1])

(***************************************************************************)
(* C6: a response text that parses as a JSON object is parsed to the same  *)
(* object when it stands between a leading code fence (with or without the *)
(* json tag, with or without leading whitespace) and a trailing one, and   *)
(* cleaning the cleaned text changes nothing.                              *)
(***************************************************************************)
C6_FenceTolerant ==
    (p_pc = "parsed" /\ JsonLoads(p_doc).ok /\ JsonLoads(p_doc).val.kind = "dict")
        => /\ p_result = JsonLoads(p_doc).val
           /\ Clean(p_cleaned) = p_cleaned

(***************************************************************************)
(* C7: the thresholded decode is attempted only when the raw decode gives  *)
(* no value; when no payload is decoded the result is None; when the       *)
(* payload holds SID: followed by a digit at any position, the result is   *)
(* the run of digits after the leftmost such SID:; any other payload is    *)
(* returned unchanged.                                                     *)
(***************************************************************************)
\* d is the longest run of digits of s that starts at position from
DigitRun(s, from, d) ==
    /\ d # <<>>
    /\ from + Len(d) - 1 <= Len(s)
    /\ d = SubSeq(s, from, from + Len(d) - 1)
    /\ \A k \in DOMAIN d : d[k] \in Digits
    /\ (from + Len(d) <= Len(s)) => s[from + Len(d)] \notin Digits

Decoded ==
    /\ s_thresholded = (s_raw = <<>>)
    /\ s_value = (IF s_raw # <<>> THEN s_raw ELSE s_thresh)

C7_ScanLeftmost ==
    s_pc = "returned" =>
        /\ Decoded
        /\ LET occ == {i \in 1..Len(s_value) : MatchAt(s_value, i)}
           IN  IF s_value = <<>> THEN s_ret = NoneVal
               ELSE IF occ = {} THEN s_ret = s_value
               ELSE \E i \in occ :
                        /\ \A k \in occ : i <= k
                        /\ DigitRun(s_value, i + Len(SidTag), s_ret)

\* the raw pass decodes nothing, the thresholded pass decodes xSID:47x
C7_Witness ==
    /\ s_pc = "returned"
    /\ s_raw = <<>>
    /\ s_thresholded
    /\ s_value = <<"x">> \o SidTag \o <<"4", "7", "x">>
    /\ s_ret = <<"4", "7">>

\* C7 as stated: only a payload that starts with SID: and a digit gives its
\* digits, every other decoded payload is returned unchanged
C7_PrefixForm ==
    s_pc = "returned" =>
        /\ Decoded
        /\ IF s_value = <<>> THEN s_ret = NoneVal
           ELSE IF MatchAt(s_value, 1)
                THEN DigitRun(s_value, 1 + Len(SidTag), s_ret)
                ELSE s_ret = s_value

====
